---- MODULE Spec2Model ----
(***************************************************************************)
(* Model of server/src/controllers/PointsController.ts (ecoleta).          *)
(*                                                                         *)
(* The controller's four handlers (index, show, create, update) run as     *)
(* concurrent requests against one relational store (tables points and     *)
(* point_items, read-only table items) and one uploads directory.  Every   *)
(* `await` of a handler is a point where other handlers may run, so each   *)
(* handler is cut into one action per awaited statement.                   *)
(*                                                                         *)
(* JavaScript values: `undefined` is modelled by the key being absent from *)
(* a record; the comma separated `items` text is a sequence of characters  *)
(* so that split/trim/Number are computed as the code computes them.       *)
(***************************************************************************)
EXTENDS Integers, Sequences, FiniteSets, Bags, TLC

\* ---------------------------------------------------------------- bounds
\* number of requests the server receives in one behaviour
MaxRequests == 2
\* identifiers of the rows of the read-only items table: 1..MaxItem
MaxItem == 2

VARIABLES
    points,       \* committed rows of table points
    point_items,  \* committed rows of table point_items (a bag: no key)
    uploads,      \* file names present in uploads/images
    nextId,       \* auto-increment counter of points.id
    nextFile,     \* number of files the upload middleware has stored
    req           \* the requests: position, body, locals, response

vars == <<points, point_items, uploads, nextId, nextFile, req>>

Req == 1..MaxRequests

\* ------------------------------------------------------ JavaScript helpers
\* `key in obj` with a value other than undefined
Has(obj, key) == key \in DOMAIN obj

\* { ...a, ...b }
Spread(a, b) ==
    [k \in DOMAIN a \cup DOMAIN b |-> IF k \in DOMAIN b THEN b[k] ELSE a[k]]

\* { ...obj, key: undefined } as JSON.stringify writes it: the key is dropped
WithUndefined(obj, key) == [k \in DOMAIN obj \ {key} |-> obj[k]]

Digits == <<"0", "1", "2", "3", "4", "5", "6", "7", "8", "9">>
DigitValue(c) == (CHOOSE i \in 1..10 : Digits[i] = c) - 1
IsDigit(c) == \E i \in 1..10 : Digits[i] = c
NaN == "NaN"

\* String.prototype.split(','): never returns an empty array
RECURSIVE SplitFrom(_, _, _)
SplitFrom(s, i, cur) ==
    IF i > Len(s) THEN <<cur>>
    ELSE IF s[i] = "," THEN <<cur>> \o SplitFrom(s, i + 1, <<>>)
    ELSE SplitFrom(s, i + 1, Append(cur, s[i]))
Split(s) == SplitFrom(s, 1, <<>>)

\* String.prototype.trim()
RECURSIVE TrimLeft(_)
TrimLeft(s) == IF s # <<>> /\ Head(s) = " " THEN TrimLeft(Tail(s)) ELSE s
RECURSIVE TrimRight(_)
TrimRight(s) ==
    IF s # <<>> /\ s[Len(s)] = " " THEN TrimRight(SubSeq(s, 1, Len(s) - 1)) ELSE s
Trim(s) == TrimRight(TrimLeft(s))

\* Number(text) for the texts a list of identifiers can hold: the empty
\* text is 0, a run of digits is its decimal value, anything else is NaN
RECURSIVE Decimal(_)
Decimal(s) ==
    IF s = <<>> THEN 0 ELSE 10 * Decimal(SubSeq(s, 1, Len(s) - 1)) + DigitValue(s[Len(s)])
Number(s) ==
    IF \A i \in 1..Len(s) : IsDigit(s[i]) THEN Decimal(s) ELSE NaN

\* faulty variant: empty parts of the text are skipped
ParseItemsSkipsEmpty(items) ==
    LET parts == SelectSeq(Split(items), LAMBDA part : Trim(part) # <<>>)
    IN [i \in 1..Len(parts) |-> Number(Trim(parts[i]))]
\* items.split(',').map(item => Number(item.trim()))
ParseItems(items) ==
    LET parts == Split(items) IN [i \in 1..Len(parts) |-> Number(Trim(parts[i]))]

\* faulty variant: the two columns change places
RECURSIVE RowsOfSwapped(_, _)
RowsOfSwapped(ids, pointId) ==
    IF ids = <<>> THEN EmptyBag
    ELSE SetToBag({[item_id |-> pointId, point_id |-> Head(ids)]})
         (+) RowsOfSwapped(Tail(ids), pointId)
\* .map(itemId => ({ item_id: itemId, point_id: pointId })), as table rows
RECURSIVE RowsOf(_, _)
RowsOf(ids, pointId) ==
    IF ids = <<>> THEN EmptyBag
    ELSE SetToBag({[item_id |-> Head(ids), point_id |-> pointId]})
         (+) RowsOf(Tail(ids), pointId)
\* faulty variant: only the first identifier gets a row
PointItemsRowsFirstOnly(items, pointId) ==
    RowsOf(<<Head(ParseItems(items))>>, pointId)
\* lines 128-136
PointItemsRows(items, pointId) == RowsOf(ParseItems(items), pointId)

\* bcrypt.hash(password, 10): opaque, never blank, never the password
Hash(password) == "$2a$10$" \o password

\* generateToken({ id }): opaque
generateToken(id) == <<"token", id>>

\* `http://10.0.0.103:3333/uploads/images/${image}`
ImageUrl(image) == "http://10.0.0.103:3333/uploads/images/" \o image

\* the name the upload middleware gives the n-th stored file
FileName(n) == "img" \o ToString(n) \o ".png"

\* ------------------------------------------------------------ the inputs
Emails == {"a@x.com", "b@x.com"}

\* name, whatsapp, latitude, longitude, city, uf of a request body
Profiles ==
    { [name |-> "Eco", whatsapp |-> "62999990000", latitude |-> -16,
       longitude |-> -48, city |-> "Anapolis", uf |-> "GO"] }

\* the texts "1, 2", "2,2" and "" (the last one parses to the identifier 0)
CreateItems == { <<"1", ",", " ", "2">>, <<"2", ",", "2">>, <<>> }

CreateBodies ==
    { Spread(p, [email |-> e, password |-> "secret", items |-> it]) :
        p \in Profiles, e \in Emails, it \in CreateItems }

\* an optional field of a body: absent, or one of the values
Optional(key, values) == {<<>>} \cup { [k \in {key} |-> v] : v \in values }

\* the texts "" and "2" for the items of an update
UpdateBodies ==
    { Spread(Spread(Spread([originalemail |-> o], e), pw), it) :
        o \in Emails,
        e \in Optional("email", {"", "b@x.com"}),
        pw \in Optional("password", {"", "changed"}),
        it \in Optional("items", {<<>>, <<"2">>}) }

\* rows of table items (seeded, read-only)
items == { [id |-> i, title |-> <<"item", i>>] : i \in 1..MaxItem }

\* the point registered before the server starts, when there is one
SeedBodies ==
    << [name |-> "Eco", whatsapp |-> "62999990000", latitude |-> -16,
        longitude |-> -48, city |-> "Anapolis", uf |-> "GO",
        email |-> "a@x.com", password |-> "secret", items |-> <<"1", ",", " ", "2">>] >>

\* ---------------------------------------------------------- the requests
Idle == [kind |-> "none", pc |-> "idle", trx |-> "none", locks |-> {}]

\* the multipart middleware has stored the uploaded file before the handler
\* runs; request.file is undefined when the form carried no file
Request(body, hasFile) ==
    IF hasFile THEN [body |-> body, file |-> [filename |-> FileName(nextFile + 1)]]
    ELSE [body |-> body]

\* assignment of locals of request r
Set(r, locals) == req' = [req EXCEPT ![r] = Spread(req[r], locals)]

\* slots are taken in order
MayReceive(r) ==
    /\ req[r].kind = "none"
    /\ req[r].pc = "idle"
    /\ \A q \in Req : q < r => req[q].pc # "idle"

StoreUpload(hasFile) ==
    /\ nextFile' = IF hasFile THEN nextFile + 1 ELSE nextFile
    /\ uploads' = IF hasFile THEN uploads \cup {FileName(nextFile + 1)} ELSE uploads

\* an unhandled rejection of the async handler: no response is sent and
\* nothing closes the transaction the handler had opened
Throw(r, error) == Set(r, [pc |-> "threw", error |-> error])

\* response.status(s).json(j): the handler returns
Respond(r, status, json, locals) ==
    Set(r, Spread(locals, [pc |-> "done", response |-> [status |-> status, json |-> json]]))

\* the request is over; its locals are garbage, its transaction is not
Close(r) ==
    /\ req[r].pc \in {"done", "threw"}
    /\ req' = [req EXCEPT ![r] =
                 [kind |-> "none", pc |-> "closed",
                  trx |-> req[r].trx, locks |-> req[r].locks]]
    /\ UNCHANGED <<points, point_items, uploads, nextId, nextFile>>

\* point rows that open transactions other than r's have written and locked
LockedByOther(r) ==
    UNION { req[q].locks : q \in { q \in Req : q # r /\ req[q].trx = "open" } }

EmailAlreadyRegistered ==
    [error |-> TRUE,
     information |-> [in |-> "create_point", code |-> "EMAIL_ALREADY_REGISTERED",
                      message |-> "Only one point per e-mail permited."]]

\* faulty variant: the where compares another column
WhereEmailByName(rows, email) == { p \in rows : p.name = email }
\* knex('points').where('email', email)
WhereEmail(rows, email) == { p \in rows : p.email = email }

\* knex('items').join('point_items', 'items.id', '=', 'point_items.item_id')
\*     .where('point_items.point_id', id), the array as a bag of items rows
JoinItems(rows, id) ==
    LET pairs == { <<i, pi>> \in items \X DOMAIN rows :
                      i.id = pi.item_id /\ pi.point_id = id }
        RECURSIVE Sum(_)
        Sum(S) == IF S = {} THEN EmptyBag
                  ELSE LET x == CHOOSE x \in S : TRUE IN
                       [e \in {x[1]} |-> rows[x[2]]] (+) Sum(S \ {x})
    IN Sum(pairs)

\* .select(columns) of a bag of rows
RECURSIVE SelectSum(_, _, _)
SelectSum(B, S, columns) ==
    IF S = {} THEN EmptyBag
    ELSE LET x == CHOOSE x \in S : TRUE IN
         [e \in {[c \in columns |-> x[c]]} |-> B[x]] (+) SelectSum(B, S \ {x}, columns)
Select(B, columns) == SelectSum(B, DOMAIN B, columns)

\* { ...point, image_url: `http://10.0.0.103:3333/uploads/images/${point.image}` }
WithImageUrl(point) == Spread(point, [image_url |-> ImageUrl(point.image)])

\* ------------------------------------------------------------------ create
\* faulty variant: latitude and longitude change places
NewPointSwapsCoordinates(body, file, passwordHash) ==
    [image |-> file.filename,
     name |-> body.name,
     email |-> body.email,
     password |-> passwordHash,
     whatsapp |-> body.whatsapp,
     latitude |-> body.longitude,
     longitude |-> body.latitude,
     city |-> body.city,
     uf |-> body.uf]
\* lines 113-123: the row create inserts
NewPoint(body, file, passwordHash) ==
    [image |-> file.filename,
     name |-> body.name,
     email |-> body.email,
     password |-> passwordHash,
     whatsapp |-> body.whatsapp,
     latitude |-> body.latitude,
     longitude |-> body.longitude,
     city |-> body.city,
     uf |-> body.uf]

ReceiveCreate(r) ==
    /\ MayReceive(r)
    /\ \E body \in CreateBodies, hasFile \in BOOLEAN :
        /\ req' = [req EXCEPT ![r] =
                     [kind |-> "create", pc |-> "check", trx |-> "none", locks |-> {},
                      request |-> Request(body, hasFile)]]
        /\ StoreUpload(hasFile)
    /\ UNCHANGED <<points, point_items, nextId>>

\* lines 95-111: the uniqueness pre-check, outside any transaction; when it
\* passes, hash the password and open the transaction
CreateCheck(r) ==
    /\ req[r].kind = "create" /\ req[r].pc = "check"
    /\ LET hasSameEmail == WhereEmail(points, req[r].request.body.email) IN
       IF Cardinality(hasSameEmail) > 0
       THEN Respond(r, 400, EmailAlreadyRegistered, <<>>)
       ELSE Set(r, [pc |-> "insertPoint", trx |-> "open",
                    passwordHash |-> Hash(req[r].request.body.password)])
    /\ UNCHANGED <<points, point_items, uploads, nextId, nextFile>>

\* lines 113-126: build the row and insert it in the transaction
CreateInsertPoint(r) ==
    /\ req[r].kind = "create" /\ req[r].pc = "insertPoint"
    /\ IF ~Has(req[r].request, "file")
       THEN /\ Throw(r, "TypeError")
            /\ UNCHANGED nextId
       ELSE \/ /\ Set(r, [pc |-> "insertItems",
                          point |-> NewPoint(req[r].request.body, req[r].request.file,
                                             req[r].passwordHash),
                          pointId |-> nextId])
               /\ nextId' = nextId + 1
            \/ /\ Throw(r, "insert into points failed")
               /\ UNCHANGED nextId
    /\ UNCHANGED <<points, point_items, uploads, nextFile>>

\* lines 128-138: parse the items text and insert the association rows
CreateInsertItems(r) ==
    /\ req[r].kind = "create" /\ req[r].pc = "insertItems"
    /\ \/ Set(r, [pc |-> "commit",
                  pointItems |-> PointItemsRows(req[r].request.body.items, req[r].pointId)])
       \/ Throw(r, "insert into point_items failed")
    /\ UNCHANGED <<points, point_items, uploads, nextId, nextFile>>

\* lines 140-151: commit, issue the token, answer
CreateCommit(r) ==
    /\ req[r].kind = "create" /\ req[r].pc = "commit"
    /\ \/ /\ points' = points \cup {Spread([id |-> req[r].pointId], req[r].point)}
          /\ point_items' = point_items (+) req[r].pointItems
          /\ Respond(r, 200,
                     [point |-> WithUndefined(
                                   Spread([id |-> req[r].pointId], req[r].point),
                                   "password"),
                      token |-> generateToken(req[r].pointId)],
                     [trx |-> "committed"])
       \/ /\ Throw(r, "commit failed")
          /\ UNCHANGED <<points, point_items>>
    /\ UNCHANGED <<uploads, nextId, nextFile>>

\* ------------------------------------------------------------------ update
ReceiveUpdate(r) ==
    /\ MayReceive(r)
    /\ \E body \in UpdateBodies, hasFile \in BOOLEAN :
        /\ req' = [req EXCEPT ![r] =
                     [kind |-> "update", pc |-> "check", trx |-> "none", locks |-> {},
                      request |-> Request(body, hasFile)]]
        /\ StoreUpload(hasFile)
    /\ UNCHANGED <<points, point_items, nextId>>

\* faulty variant: the empty password is hashed too
UpdateHashOfEmpty(body) ==
    IF Has(body, "password") THEN [passwordHash |-> Hash(body.password)] ELSE <<>>
\* lines 183-187: the hash of a supplied password, else undefined
UpdateHash(body) ==
    IF Has(body, "password") /\ body.password # ""
    THEN [passwordHash |-> Hash(body.password)]
    ELSE <<>>

\* faulty variant: an e-mail equal to originalemail is checked too
ChecksNewEmailEvenIfSame(body) == Has(body, "email") /\ body.email # ""
\* line 169: email && email != '' && email !== originalemail
ChecksNewEmail(body) ==
    Has(body, "email") /\ body.email # "" /\ body.email # body.originalemail

\* lines 168-189: the uniqueness pre-check of a new e-mail; when it passes,
\* hash a supplied password and open the transaction
UpdateCheck(r) ==
    /\ req[r].kind = "update" /\ req[r].pc = "check"
    /\ LET body == req[r].request.body IN
       IF /\ ChecksNewEmail(body)
          /\ Cardinality(WhereEmail(points, body.email)) > 0
       THEN Respond(r, 400, EmailAlreadyRegistered, <<>>)
       ELSE Set(r, Spread([pc |-> "find", trx |-> "open"], UpdateHash(body)))
    /\ UNCHANGED <<points, point_items, uploads, nextId, nextFile>>

\* lines 191-193: .where('email', originalemail).first()
UpdateFind(r) ==
    /\ req[r].kind = "update" /\ req[r].pc = "find"
    /\ LET found == WhereEmail(points, req[r].request.body.originalemail) IN
       IF found = {}
       THEN Set(r, [pc |-> "release"])
       ELSE \E rawPoint \in found : Set(r, [pc |-> "release", rawPoint |-> rawPoint])
    /\ UNCHANGED <<points, point_items, uploads, nextId, nextFile>>

\* faulty variant: the rollback of line 195 is missing
RawPointNotFoundKeepsTrx(r) ==
    Respond(r, 400, [message |-> "raw point not found."], <<>>)
\* lines 194-199: roll the transaction back and answer
RawPointNotFound(r) ==
    Respond(r, 400, [message |-> "raw point not found."], [trx |-> "rolledback"])

\* lines 194-207: not found, or release the old image when a file came
UpdateRelease(r) ==
    /\ req[r].kind = "update" /\ req[r].pc = "release"
    /\ IF ~Has(req[r], "rawPoint")
       THEN /\ RawPointNotFound(r)
            /\ UNCHANGED uploads
       ELSE IF Has(req[r].request, "file")
       THEN IF req[r].rawPoint.image \in uploads
            THEN /\ uploads' = uploads \ {req[r].rawPoint.image}
                 /\ Set(r, [pc |-> "point", pointId |-> req[r].rawPoint.id,
                            image |-> req[r].request.file.filename])
            ELSE /\ Throw(r, "ENOENT")
                 /\ UNCHANGED uploads
       ELSE /\ Set(r, [pc |-> "point", pointId |-> req[r].rawPoint.id])
            /\ UNCHANGED uploads
    /\ UNCHANGED <<points, point_items, nextId, nextFile>>

\* lines 209-219: the object given to .update(); knex skips undefined values
UpdateColumns(r) ==
    LET body == req[r].request.body
        given == { k \in {"name", "email", "whatsapp", "latitude", "longitude",
                          "city", "uf"} : Has(body, k) }
    IN Spread(Spread([k \in given |-> body[k]],
                     IF Has(req[r], "passwordHash")
                     THEN [password |-> req[r].passwordHash] ELSE <<>>),
              IF Has(req[r], "image") THEN [image |-> req[r].image] ELSE <<>>)

\* lines 209-223: update the row in the transaction, which locks it
UpdatePoint(r) ==
    /\ req[r].kind = "update" /\ req[r].pc = "point"
    /\ \/ /\ req[r].pointId \notin LockedByOther(r)
          /\ Set(r, [pc |-> "items", point |-> UpdateColumns(r),
                     locks |-> {req[r].pointId}])
       \/ Throw(r, "update points failed")
    /\ UNCHANGED <<points, point_items, uploads, nextId, nextFile>>

\* faulty variant: the empty text replaces the items too
ReplacesItemsWhenGiven(body) == Has(body, "items")
\* line 225
ReplacesItems(body) == Has(body, "items") /\ body.items # <<>>

\* lines 225-240: replace the association rows when items were supplied
UpdateItems(r) ==
    /\ req[r].kind = "update" /\ req[r].pc = "items"
    /\ IF ReplacesItems(req[r].request.body)
       THEN \/ Set(r, [pc |-> "commit",
                       pointItems |-> PointItemsRows(req[r].request.body.items,
                                                     req[r].pointId)])
            \/ Throw(r, "replace point_items failed")
       ELSE Set(r, [pc |-> "commit"])
    /\ UNCHANGED <<points, point_items, uploads, nextId, nextFile>>

\* table points as the transaction of r sees it and as its commit leaves it
TrxPoints(r) ==
    { IF p.id = req[r].pointId THEN Spread(p, req[r].point) ELSE p : p \in points }

\* faulty variant: the delete of lines 226-228 is missing
TrxPointItemsKeepsOld(r) ==
    IF Has(req[r], "pointItems") THEN point_items (+) req[r].pointItems ELSE point_items
\* table point_items as the transaction of r sees it and as its commit leaves it
TrxPointItems(r) ==
    IF Has(req[r], "pointItems")
    THEN [row \in { x \in DOMAIN point_items : x.point_id # req[r].pointId }
            |-> point_items[row]] (+) req[r].pointItems
    ELSE point_items

\* lines 242-262: read the row and its items back, commit, answer
UpdateCommit(r) ==
    /\ req[r].kind = "update" /\ req[r].pc = "commit"
    /\ \/ LET outputPoint == CHOOSE p \in TrxPoints(r) : p.id = req[r].pointId
              serializedOutputPoint ==
                  WithImageUrl(WithUndefined(outputPoint, "password"))
              outputItems ==
                  Select(JoinItems(TrxPointItems(r), req[r].pointId), {"title", "id"})
          IN /\ points' = TrxPoints(r)
             /\ point_items' = TrxPointItems(r)
             /\ Respond(r, 200, [point |-> serializedOutputPoint, items |-> outputItems],
                        [trx |-> "committed"])
       \/ /\ Throw(r, "commit failed")
          /\ UNCHANGED <<points, point_items>>
    /\ UNCHANGED <<uploads, nextId, nextFile>>

\* -------------------------------------------------------------------- show
ReceiveShow(r) ==
    /\ MayReceive(r)
    /\ \E id \in 1..nextId :
        req' = [req EXCEPT ![r] =
                  [kind |-> "show", pc |-> "point", trx |-> "none", locks |-> {},
                   request |-> [params |-> [id |-> id]]]]
    /\ UNCHANGED <<points, point_items, uploads, nextId, nextFile>>

\* lines 60-73
ShowPoint(r) ==
    /\ req[r].kind = "show" /\ req[r].pc = "point"
    /\ LET found == { p \in points : p.id = req[r].request.params.id } IN
       IF found = {}
       THEN Respond(r, 400, [message |-> "point not found."], <<>>)
       ELSE Set(r, [pc |-> "items",
                    serializedPoint |-> WithImageUrl(CHOOSE p \in found : TRUE)])
    /\ UNCHANGED <<points, point_items, uploads, nextId, nextFile>>

\* faulty variant: the rows that were read are deleted
ShowItemsDeletesRows(r) ==
    /\ req[r].kind = "show" /\ req[r].pc = "items"
    /\ Respond(r, 200,
               [point |-> req[r].serializedPoint,
                items |-> Select(JoinItems(point_items, req[r].request.params.id),
                                 {"title"})],
               <<>>)
    /\ point_items' = [row \in { x \in DOMAIN point_items :
                                    x.point_id # req[r].request.params.id }
                          |-> point_items[row]]
    /\ UNCHANGED <<points, uploads, nextId, nextFile>>
\* lines 75-80
ShowItems(r) ==
    /\ req[r].kind = "show" /\ req[r].pc = "items"
    /\ Respond(r, 200,
               [point |-> req[r].serializedPoint,
                items |-> Select(JoinItems(point_items, req[r].request.params.id),
                                 {"title"})],
               <<>>)
    /\ UNCHANGED <<points, point_items, uploads, nextId, nextFile>>

\* ------------------------------------------------------------------- index
\* the city and uf of a query: those of the stored points, another uf,
\* another city
IndexPlaces ==
    { [city |-> "Anapolis", uf |-> "GO"], [city |-> "Anapolis", uf |-> "SP"],
      [city |-> "Goiania", uf |-> "GO"] }

\* the texts "1,2" and "9" for the items of a query
IndexQueries ==
    { Spread(Spread([city |-> p.city, uf |-> p.uf, items |-> it], ig), rt) :
        p \in IndexPlaces, it \in {<<"1", ",", "2">>, <<"9">>},
        ig \in Optional("ignoreItems", {"true"}),
        rt \in Optional("returnItems", {"true"}) }

ReceiveIndex(r) ==
    /\ MayReceive(r)
    /\ \E query \in IndexQueries :
        req' = [req EXCEPT ![r] =
                  [kind |-> "index", pc |-> "query", trx |-> "none", locks |-> {},
                   request |-> [query |-> query]]]
    /\ UNCHANGED <<points, point_items, uploads, nextId, nextFile>>

\* lines 13-27: the rows of points joined to point_items that the filters
\* keep, one for every joined pair (an array, as a bag)
IndexJoin(query) ==
    LET parsedItems == ParseItems(query.items)
        pairs == { <<p, pi>> \in points \X DOMAIN point_items :
                      /\ p.id = pi.point_id
                      /\ Has(query, "ignoreItems")
                         \/ \E i \in 1..Len(parsedItems) : parsedItems[i] = pi.item_id
                      /\ p.city = query.city
                      /\ p.uf = query.uf }
        RECURSIVE Sum(_)
        Sum(S) == IF S = {} THEN EmptyBag
                  ELSE LET x == CHOOSE x \in S : TRUE IN
                       [e \in {x[1]} |-> point_items[x[2]]] (+) Sum(S \ {x})
    IN Sum(pairs)

\* .distinct()
Distinct(rows) == SetToBag(BagToSet(rows))

\* faulty variant: the .distinct() of line 28 is missing
IndexRowsNotDistinct(query) == IndexJoin(query)
\* lines 13-29: the query
IndexRows(query) == Distinct(IndexJoin(query))

\* lines 33-38: points.map(point => ({ ...point, image_url }))
RECURSIVE SerializeSum(_, _)
SerializeSum(rows, S) ==
    IF S = {} THEN EmptyBag
    ELSE LET x == CHOOSE x \in S : TRUE IN
         [e \in {WithImageUrl(x)} |-> rows[x]] (+) SerializeSum(rows, S \ {x})
SerializePoints(rows) == SerializeSum(rows, DOMAIN rows)

\* lines 11-38, and 56 when returnItems is not given
IndexQuery(r) ==
    /\ req[r].kind = "index" /\ req[r].pc = "query"
    /\ LET serializedPoints == SerializePoints(IndexRows(req[r].request.query)) IN
       IF Has(req[r].request.query, "returnItems")
       THEN Set(r, [pc |-> "items", serializedPoints |-> serializedPoints,
                    fetched |-> EmptyBag])
       ELSE Respond(r, 200, serializedPoints, <<>>)
    /\ UNCHANGED <<points, point_items, uploads, nextId, nextFile>>

\* lines 41-51: one of the queries of the Promise.all
IndexFetchItems(r) ==
    /\ req[r].kind = "index" /\ req[r].pc = "items"
    /\ \E point \in BagToSet(req[r].serializedPoints) :
        Set(r, [serializedPoints |-> req[r].serializedPoints (-) SetToBag({point}),
                fetched |-> req[r].fetched (+) SetToBag(
                    {[point |-> point,
                      items |-> Select(JoinItems(point_items, point.id), {"title"})]})])
    /\ UNCHANGED <<points, point_items, uploads, nextId, nextFile>>

\* lines 53-56: all queries of the Promise.all have answered
IndexRespond(r) ==
    /\ req[r].kind = "index" /\ req[r].pc = "items"
    /\ BagToSet(req[r].serializedPoints) = {}
    /\ Respond(r, 200, req[r].fetched, <<>>)
    /\ UNCHANGED <<points, point_items, uploads, nextId, nextFile>>

\* ------------------------------------------------------------- the system
\* the store holding the first n seed points
SeedPoint(i) ==
    Spread([id |-> i],
           NewPoint(SeedBodies[i], [filename |-> FileName(i)], Hash(SeedBodies[i].password)))

RECURSIVE SeedItems(_)
SeedItems(n) ==
    IF n = 0 THEN EmptyBag
    ELSE SeedItems(n - 1) (+) PointItemsRows(SeedBodies[n].items, n)

Init ==
    \E n \in 0..Len(SeedBodies) :
        /\ points = { SeedPoint(i) : i \in 1..n }
        /\ point_items = SeedItems(n)
        /\ uploads = { FileName(i) : i \in 1..n }
        /\ nextId = n + 1
        /\ nextFile = n
        /\ req = [r \in Req |-> Idle]

Next ==
    \E r \in Req :
        \/ ReceiveCreate(r)
        \/ CreateCheck(r)
        \/ CreateInsertPoint(r)
        \/ CreateInsertItems(r)
        \/ CreateCommit(r)
        \/ ReceiveUpdate(r)
        \/ UpdateCheck(r)
        \/ UpdateFind(r)
        \/ UpdateRelease(r)
        \/ UpdatePoint(r)
        \/ UpdateItems(r)
        \/ UpdateCommit(r)
        \/ ReceiveShow(r)
        \/ ShowPoint(r)
        \/ ShowItems(r)
        \/ ReceiveIndex(r)
        \/ IndexQuery(r)
        \/ IndexFetchItems(r)
        \/ IndexRespond(r)
        \/ Close(r)

Spec == Init /\ [][Next]_vars

\* ---------------------------------------------------------------- claims
\* the point objects a response body carries
ResponsePoints(r) ==
    LET json == req[r].response.json IN
    IF req[r].response.status # 200 THEN {}
    ELSE IF req[r].kind = "index"
    THEN IF Has(req[r].request.query, "returnItems")
         THEN { x.point : x \in BagToSet(json) } ELSE BagToSet(json)
    ELSE {json.point}

\* the rows of point_items of one point
RowsOfPoint(rows, id) == [row \in { x \in DOMAIN rows : x.point_id = id } |-> rows[row]]

\* the item identifiers associated with one point
ItemIdsOf(rows, id) == { row.item_id : row \in DOMAIN RowsOfPoint(rows, id) }

\* the set of identifiers each items text of the inputs lists
SuppliedIds(text) ==
    CASE text = <<"1", ",", " ", "2">> -> {1, 2}
      [] text = <<"2", ",", "2">> -> {2}
      [] text = <<"2">> -> {2}
      [] text = <<"1", ",", "2">> -> {1, 2}
      [] text = <<"1">> -> {1}
      [] text = <<"9">> -> {9}
      [] text = <<>> -> {}

\* request r took the step
Stepped(r) == req'[r] # req[r]

\* the step is the successful commit of update r
UpdateCommitted(r) ==
    /\ req[r].kind = "update" /\ req[r].pc = "commit"
    /\ req'[r].pc = "done" /\ req'[r].response.status = 200

\* C1: no two distinct rows of points have the same email.
C1_UniqueContactIdentity ==
    \A p \in points, q \in points : p.email = q.email => p.id = q.id

\* C2: of two create requests carrying the same email, at most one answers
\* with success.
C2_AtMostOneCreateSucceeds ==
    \A r \in Req, q \in Req :
        ( /\ r # q
          /\ req[r].kind = "create" /\ req[r].pc = "done"
          /\ req[q].kind = "create" /\ req[q].pc = "done"
          /\ req[r].request.body.email = req[q].request.body.email )
        => ~(req[r].response.status = 200 /\ req[q].response.status = 200)

\* C3: a create whose insert of the point row or of the association rows
\* failed has rolled its transaction back, and every committed point row has
\* its association rows.
C3_CreateAllOrNothing ==
    /\ \A r \in Req :
        ( /\ req[r].kind = "create" /\ req[r].pc = "threw"
          /\ req[r].error \in {"insert into points failed",
                               "insert into point_items failed"} )
        => req[r].trx = "rolledback"
    /\ \A p \in points : ItemIdsOf(point_items, p.id) # {}

\* C4: no response of create, update, index or show, success or error,
\* carries the password hash of a point.
C4_NoCredentialInResponse ==
    \A r \in Req :
        req[r].pc = "done" =>
            /\ req[r].response.status # 200
                  => ~Has(req[r].response.json, "password")
            /\ \A point \in ResponsePoints(r) : ~Has(point, "password")

\* C5: the successful commit of an update that supplies a non-empty items
\* text leaves the point with exactly the supplied identifiers, and no step
\* of an update changes the association rows of any other point.
C5_UpdateReplacesItems ==
    [][\A r \in Req :
        (req[r].kind = "update" /\ Stepped(r)) =>
            /\ \A p \in points :
                  \/ Has(req[r], "pointId") /\ p.id = req[r].pointId
                  \/ RowsOfPoint(point_items', p.id) = RowsOfPoint(point_items, p.id)
            /\ ( /\ UpdateCommitted(r)
                 /\ Has(req[r].request.body, "items")
                 /\ req[r].request.body.items # <<>> )
               => ItemIdsOf(point_items', req[r].pointId)
                    = SuppliedIds(req[r].request.body.items)
      ]_vars

\* C5 witness: an update supplying "2" has succeeded on a point, another
\* point exists, and the point holds exactly item 2.
C5_Witness ==
    \E r \in Req :
        /\ req[r].kind = "update" /\ req[r].pc = "done"
        /\ req[r].response.status = 200
        /\ Has(req[r].request.body, "items")
        /\ req[r].request.body.items = <<"2">>
        /\ ItemIdsOf(point_items, req[r].response.json.point.id) = {2}
        /\ \E p \in points :
              /\ p.id # req[r].response.json.point.id
              /\ ItemIdsOf(point_items, p.id) # {}

\* C6: no step of an update whose items text is omitted or empty changes
\* any row of point_items.
C6_UpdateWithoutItemsKeepsItems ==
    [][\A r \in Req :
        ( /\ req[r].kind = "update" /\ Stepped(r)
          /\ \/ ~Has(req[r].request.body, "items")
             \/ req[r].request.body.items = <<>> )
        => point_items' = point_items
      ]_vars

\* C6 witness: an update with the empty items text has succeeded and its
\* point still has association rows.
C6_Witness ==
    \E r \in Req :
        /\ req[r].kind = "update" /\ req[r].pc = "done"
        /\ req[r].response.status = 200
        /\ Has(req[r].request.body, "items")
        /\ req[r].request.body.items = <<>>
        /\ ItemIdsOf(point_items, req[r].response.json.point.id) = {1, 2}

\* C7: every point row always has a password hash that is not blank, and no
\* step of an update whose password is omitted or empty changes the password
\* column of any row.
C7_UpdateKeepsCredential ==
    /\ \A p \in points : Has(p, "password") /\ p.password # ""
    /\ [][ /\ \A p \in points' : Has(p, "password") /\ p.password # ""
           /\ \A r \in Req :
                ( /\ req[r].kind = "update" /\ Stepped(r)
                  /\ \/ ~Has(req[r].request.body, "password")
                     \/ req[r].request.body.password = "" )
                => \A p \in points : \E q \in points' :
                      q.id = p.id /\ q.password = p.password
         ]_vars

\* C7 witness: an update with the empty password has succeeded and the row
\* still holds the hash it was created with.
C7_Witness ==
    \E r \in Req :
        /\ req[r].kind = "update" /\ req[r].pc = "done"
        /\ req[r].response.status = 200
        /\ Has(req[r].request.body, "password")
        /\ req[r].request.body.password = ""
        /\ \E p \in points :
              /\ p.id = req[r].response.json.point.id
              /\ p.password = Hash("secret")

C9_ImageReferencesExist ==
    (\A r \in Req : ~(req[r].kind = "update" /\ req[r].pc \in {"point", "items", "commit"}))
        => \A p \in points : p.image \in uploads

\* C10: show of a point answers exactly the items whose identifiers the
\* create of that point supplied, as a set, when no update of that point
\* has committed.
C10_ShowReturnsCreatedItems ==
    \A q \in Req, r \in Req :
        ( /\ req[q].kind = "create" /\ req[q].pc = "done"
          /\ req[q].response.status = 200
          /\ req[r].kind = "show" /\ req[r].pc = "done"
          /\ req[r].response.status = 200
          /\ req[r].request.params.id = req[q].response.json.point.id
          /\ \A u \in Req :
                ~(req[u].trx = "committed" /\ req[r].request.params.id \in req[u].locks) )
        => BagToSet(req[r].response.json.items)
             = { [title |-> i.title] :
                   i \in { i \in items : i.id \in SuppliedIds(req[q].request.body.items) } }

\* C10 witness: show has answered both items of a point created with "1, 2".
C10_Witness ==
    \E q \in Req, r \in Req :
        /\ req[q].kind = "create" /\ req[q].pc = "done"
        /\ req[q].response.status = 200
        /\ req[q].request.body.items = <<"1", ",", " ", "2">>
        /\ req[r].kind = "show" /\ req[r].pc = "done"
        /\ req[r].response.status = 200
        /\ req[r].request.params.id = req[q].response.json.point.id
        /\ Cardinality(BagToSet(req[r].response.json.items)) = 2

\* C11: a query of index that does not ignore the items answers, each
\* exactly once, the points whose city and uf are the query's and that have
\* an association row with one of the query's item identifiers.
C11_IndexFiltersAndDeduplicates ==
    [][\A r \in Req :
        ( /\ req[r].kind = "index" /\ req[r].pc = "query" /\ Stepped(r)
          /\ ~Has(req[r].request.query, "ignoreItems") )
        => LET query == req[r].request.query
               answer == IF Has(query, "returnItems")
                         THEN req'[r].serializedPoints
                         ELSE req'[r].response.json
               expected ==
                   { p \in points :
                       /\ p.city = query.city
                       /\ p.uf = query.uf
                       /\ ItemIdsOf(point_items, p.id) \cap SuppliedIds(query.items) # {} }
           IN /\ { [k \in DOMAIN x \ {"image_url"} |-> x[k]] : x \in BagToSet(answer) }
                    = expected
              /\ \A x \in BagToSet(answer) : CopiesIn(x, answer) = 1
      ]_vars

\* C11 witness: index has answered one point that has two association rows
\* matching the query, and another stored point is left out.
C11_Witness ==
    \E r \in Req :
        /\ req[r].kind = "index" /\ req[r].pc = "done"
        /\ ~Has(req[r].request.query, "ignoreItems")
        /\ ~Has(req[r].request.query, "returnItems")
        /\ \E x \in BagToSet(req[r].response.json) :
              /\ BagToSet(req[r].response.json) = {x}
              /\ BagCardinality(RowsOfPoint(point_items, x.id)) = 2
              /\ ItemIdsOf(point_items, x.id) \subseteq SuppliedIds(req[r].request.query.items)
        /\ Cardinality(points) = 2

\* the store is left as it was by the step
StoreUnchanged ==
    /\ points' = points
    /\ point_items' = point_items
    /\ uploads' = uploads

\* the response is the 400 with code EMAIL_ALREADY_REGISTERED
IsDuplicateIdentity(response) ==
    /\ response.status = 400
    /\ Has(response.json, "error")
    /\ response.json.information.code = "EMAIL_ALREADY_REGISTERED"

\* C12: a create whose email a stored point already has answers 400
\* EMAIL_ALREADY_REGISTERED at its first step, without opening a transaction
\* and without changing the store.
C12_CreateDuplicateRejected ==
    [][\A r \in Req :
        ( /\ req[r].kind = "create" /\ req[r].pc = "check" /\ Stepped(r)
          /\ \E p \in points : p.email = req[r].request.body.email )
        => /\ req'[r].pc = "done"
           /\ IsDuplicateIdentity(req'[r].response)
           /\ req[r].trx = "none" /\ req'[r].trx = "none"
           /\ StoreUnchanged
      ]_vars

\* C12 witness: a create has been rejected as a duplicate of a stored point.
C12_Witness ==
    \E r \in Req :
        /\ req[r].kind = "create" /\ req[r].pc = "done"
        /\ IsDuplicateIdentity(req[r].response)
        /\ req[r].trx = "none"
        /\ \E p \in points : p.email = req[r].request.body.email

\* C13: show of a point answers the name, whatsapp, latitude, longitude,
\* city and uf its create was given and the URL of the file stored for it,
\* when no update of that point has committed.
C13_ShowReturnsCreatedFields ==
    \A q \in Req, r \in Req :
        ( /\ req[q].kind = "create" /\ req[q].pc = "done"
          /\ req[q].response.status = 200
          /\ req[r].kind = "show" /\ req[r].pc = "done"
          /\ req[r].response.status = 200
          /\ req[r].request.params.id = req[q].response.json.point.id
          /\ \A u \in Req :
                ~(req[u].trx = "committed" /\ req[r].request.params.id \in req[u].locks) )
        => LET point == req[r].response.json.point
               body == req[q].request.body
           IN /\ \A k \in {"name", "whatsapp", "latitude", "longitude", "city", "uf"} :
                    point[k] = body[k]
              /\ point.image_url = "http://10.0.0.103:3333/uploads/images/"
                                      \o req[q].request.file.filename

\* C13 witness: show has answered for a point whose create is still known.
C13_Witness ==
    \E q \in Req, r \in Req :
        /\ req[q].kind = "create" /\ req[q].pc = "done"
        /\ req[q].response.status = 200
        /\ req[r].kind = "show" /\ req[r].pc = "done"
        /\ req[r].response.status = 200
        /\ req[r].request.params.id = req[q].response.json.point.id
        /\ req[r].response.json.point.latitude = -16
        /\ req[r].response.json.point.longitude = -48

\* C14: no step of index or show changes a point row, an association row or
\* a stored file, and show of an id no point has answers 400 'point not
\* found.'.
C14_ReadsChangeNothing ==
    [][\A r \in Req :
        (req[r].kind \in {"index", "show"} /\ Stepped(r)) =>
            /\ StoreUnchanged
            /\ ( /\ req[r].kind = "show" /\ req[r].pc = "point"
                 /\ ~\E p \in points : p.id = req[r].request.params.id )
               => /\ req'[r].pc = "done"
                  /\ req'[r].response =
                        [status |-> 400, json |-> [message |-> "point not found."]]
      ]_vars

\* C14 witness: one show has answered a stored point, another show has
\* answered not found, and the stored point still has its rows.
C14_Witness ==
    \E r \in Req, q \in Req :
        /\ req[r].kind = "show" /\ req[r].pc = "done"
        /\ req[r].response.status = 200
        /\ ItemIdsOf(point_items, req[r].request.params.id) = {1, 2}
        /\ req[q].kind = "show" /\ req[q].pc = "done"
        /\ req[q].response = [status |-> 400, json |-> [message |-> "point not found."]]

\* C15: the first step of an update answers 400 EMAIL_ALREADY_REGISTERED,
\* changing nothing, when its email is given, not empty, not the
\* originalemail and held by a stored point; an update whose email is
\* absent, empty or the originalemail never gets that answer.
C15_UpdateDuplicateRejected ==
    [][\A r \in Req :
        (req[r].kind = "update" /\ Stepped(r)) =>
            LET body == req[r].request.body
                fresh == /\ Has(body, "email") /\ body.email # ""
                         /\ body.email # body.originalemail
            IN /\ ( /\ req[r].pc = "check" /\ fresh
                    /\ \E p \in points : p.email = body.email )
                  => /\ req'[r].pc = "done"
                     /\ IsDuplicateIdentity(req'[r].response)
                     /\ StoreUnchanged
               /\ ~fresh => ~(req'[r].pc = "done" /\ IsDuplicateIdentity(req'[r].response))
      ]_vars

\* C15 witness: an update to the email of another stored point has been
\* rejected.
C15_Witness ==
    \E r \in Req :
        /\ req[r].kind = "update" /\ req[r].pc = "done"
        /\ IsDuplicateIdentity(req[r].response)
        /\ \E p \in points, q \in points :
              /\ p.email = req[r].request.body.email
              /\ q.email = req[r].request.body.originalemail
              /\ p.id # q.id

\* C16: a request that is over has left no transaction open: the
\* transaction it opened was committed or rolled back.
C16_NoTransactionLeftOpen ==
    \A r \in Req : req[r].pc \in {"done", "threw", "closed"} => req[r].trx # "open"

\* C17: a create without a file never opens a transaction and ends with an
\* error response.
C17_MissingImageRejected ==
    \A r \in Req :
        (req[r].kind = "create" /\ ~Has(req[r].request, "file")) =>
            /\ req[r].trx = "none"
            /\ req[r].pc # "threw"
            /\ req[r].pc = "done" => req[r].response.status >= 400

\* C19: the point_id of every association row is the id of a point row.
C19_AssociationsReferencePoints ==
    \A row \in DOMAIN point_items : \E p \in points : p.id = row.point_id

\* C19 witness: two points are stored, each with association rows.
C19_Witness ==
    /\ Cardinality(points) = 2
    /\ \A p \in points : ItemIdsOf(point_items, p.id) # {}
    /\ \E r \in Req : req[r].kind = "update" /\ req[r].pc = "done"
                      /\ req[r].response.status = 200
                      /\ Has(req[r], "pointItems")

\* C20: every point row has at least one association row.
C20_PointsHaveAssociations ==
    \A p \in points : \E row \in DOMAIN point_items : row.point_id = p.id

\* C20 witness: a point created with the empty items text is stored.
C20_Witness ==
    \E r \in Req :
        /\ req[r].kind = "create" /\ req[r].pc = "done"
        /\ req[r].response.status = 200
        /\ req[r].request.body.items = <<>>
        /\ \E p \in points : p.id = req[r].response.json.point.id

\* an update run alone against a store: the store it leaves and its response
RunUpdate(store, request) ==
    LET body == request.body
        found == { p \in store.points : p.email = body.originalemail }
        rawPoint == CHOOSE p \in found : TRUE
        taken == /\ Has(body, "email") /\ body.email # ""
                 /\ body.email # body.originalemail
                 /\ \E p \in store.points : p.email = body.email
        columns ==
            Spread(Spread([k \in { k \in {"name", "email", "whatsapp", "latitude",
                                          "longitude", "city", "uf"} : Has(body, k) }
                             |-> body[k]],
                          IF Has(body, "password") /\ body.password # ""
                          THEN [password |-> Hash(body.password)] ELSE <<>>),
                   IF Has(request, "file")
                   THEN [image |-> request.file.filename] ELSE <<>>)
        newPoint == Spread(rawPoint, columns)
        newPoints == (store.points \ {rawPoint}) \cup {newPoint}
        newItems ==
            IF Has(body, "items") /\ body.items # <<>>
            THEN [row \in { x \in DOMAIN store.point_items : x.point_id # rawPoint.id }
                    |-> store.point_items[row]]
                 (+) PointItemsRows(body.items, rawPoint.id)
            ELSE store.point_items
        newUploads == IF Has(request, "file")
                      THEN store.uploads \ {rawPoint.image} ELSE store.uploads
    IN IF taken
       THEN [store |-> store,
             response |-> [status |-> 400, json |-> EmailAlreadyRegistered]]
       ELSE IF found = {}
       THEN [store |-> store,
             response |-> [status |-> 400, json |-> [message |-> "raw point not found."]]]
       ELSE [store |-> [points |-> newPoints, point_items |-> newItems,
                        uploads |-> newUploads],
             response |->
                [status |-> 200,
                 json |-> [point |-> WithImageUrl(WithUndefined(newPoint, "password")),
                           items |-> Select(JoinItems(newItems, rawPoint.id),
                                            {"title", "id"})]]]

\* the store holding the seeded point and the files of two requests
StoreBefore(r, q) ==
    [points |-> {SeedPoint(1)},
     point_items |-> SeedItems(1),
     uploads |-> {FileName(1)}
                 \cup { req[x].request.file.filename :
                          x \in { x \in {r, q} : Has(req[x].request, "file") } }]

\* C18: when two updates of the seeded point have both answered, the store
\* and the two responses are those of running the two updates one after the
\* other in one of the two orders.
C18_UpdatesSerializable ==
    \A r \in Req, q \in Req :
        ( /\ r # q
          /\ req[r].kind = "update" /\ req[r].pc = "done"
          /\ req[q].kind = "update" /\ req[q].pc = "done"
          /\ req[r].request.body.originalemail = SeedBodies[1].email
          /\ req[q].request.body.originalemail = SeedBodies[1].email
          /\ points # {} )
        => \E order \in {<<r, q>>, <<q, r>>} :
              LET first == RunUpdate(StoreBefore(r, q), req[order[1]].request)
                  second == RunUpdate(first.store, req[order[2]].request)
              IN /\ second.store.points = points
                 /\ second.store.point_items = point_items
                 /\ second.store.uploads = uploads
                 /\ first.response = req[order[1]].response
                 /\ second.response = req[order[2]].response

====
